---- MODULE Spec2Model ----
(***************************************************************************)
(* A model of deeperwin's job dispatch layer (src/deeperwin/dispatch.py):  *)
(* the duration parser, the run discovery walk, the experiment and job     *)
(* directory set-up, the path rewriting for the DGX cluster, the job       *)
(* script templates and dispatch_job with its backend auto-detection.      *)
(*                                                                         *)
(* Python strings are modelled as sequences of one-character strings, so   *)
(* that lower(), startswith(), the regular expression and substring tests  *)
(* are computed character by character.  Python floats are modelled as     *)
(* IEEE-754 binary64 values (53-bit significand, round-half-even), with    *)
(* the significand kept as a little-endian sequence of 15-bit limbs.       *)
(***************************************************************************)
EXTENDS Integers, Sequences, FiniteSets, TLC

VARIABLES fs, env, last, dq, fr, nq, calls

vars == <<fs, env, last, dq, fr, nq, calls>>

\* The value of a variable that a specification does not use.
Unused == [phase |-> "unused"]

(***************************************************************************)
(* Characters and strings                                                  *)
(***************************************************************************)
DigitChars == <<"0", "1", "2", "3", "4", "5", "6", "7", "8", "9">>

UpperChars == <<"A", "B", "C", "D", "E", "F", "G", "H", "I", "J", "K", "L", "M",
                "N", "O", "P", "Q", "R", "S", "T", "U", "V", "W", "X", "Y", "Z">>

LowerChars == <<"a", "b", "c", "d", "e", "f", "g", "h", "i", "j", "k", "l", "m",
                "n", "o", "p", "q", "r", "s", "t", "u", "v", "w", "x", "y", "z">>

IsDigit(c) == \E i \in 1..10 : DigitChars[i] = c

DigitVal(c) == (CHOOSE i \in 1..10 : DigitChars[i] = c) - 1

\* str.lower() on one character: an upper-case letter maps to its lower-case
\* letter, every other character is kept.
LowerChar(c) ==
    IF \E i \in 1..26 : UpperChars[i] = c
    THEN LowerChars[CHOOSE i \in 1..26 : UpperChars[i] = c]
    ELSE c

\* str.lower()
Lower(s) == [i \in 1..Len(s) |-> LowerChar(s[i])]

\* str.startswith(prefix)
StartsWith(s, prefix) ==
    /\ Len(prefix) <= Len(s)
    /\ SubSeq(s, 1, Len(prefix)) = prefix

\* `sub in s` for strings
Contains(s, sub) ==
    \E i \in 1..(Len(s) - Len(sub) + 1) : SubSeq(s, i, i + Len(sub) - 1) = sub

RECURSIVE Join(_, _)
\* sep.join(parts)
Join(parts, sep) ==
    IF parts = <<>> THEN <<>>
    ELSE IF Len(parts) = 1 THEN parts[1]
    ELSE parts[1] \o sep \o Join(Tail(parts), sep)

(***************************************************************************)
(* binary64 arithmetic: float(str), float * int, float / int, int(float).  *)
(* A natural number is a sequence of limbs of LimbBits bits each, least    *)
(* significant first, without leading zero limbs.  A float is [m, e]: the  *)
(* value m * 2^e with m of at most MantissaBits bits.                      *)
(***************************************************************************)
MantissaBits == 53

LimbBits == 15

RECURSIVE Pow2(_)
Pow2(k) == IF k = 0 THEN 1 ELSE 2 * Pow2(k - 1)

Base == Pow2(LimbBits)

\* Limbs appended below a dividend before a quotient is rounded.
GuardLimbs == 5

GuardBits == GuardLimbs * LimbBits

RECURSIVE Nat2Limbs(_)
Nat2Limbs(n) == IF n = 0 THEN <<>> ELSE <<n % Base>> \o Nat2Limbs(n \div Base)

RECURSIVE Limbs2Nat(_)
Limbs2Nat(a) == IF a = <<>> THEN 0 ELSE Head(a) + Base * Limbs2Nat(Tail(a))

RECURSIVE LTrim(_)
\* without the leading (most significant) zero limbs
LTrim(a) ==
    IF a = <<>> THEN <<>>
    ELSE IF a[Len(a)] = 0 THEN LTrim(SubSeq(a, 1, Len(a) - 1))
    ELSE a

RECURSIVE LMulAdd(_, _, _)
\* a * c + carry, for c and carry below Base
LMulAdd(a, c, carry) ==
    IF a = <<>> THEN (IF carry = 0 THEN <<>> ELSE <<carry>>)
    ELSE LET t == Head(a) * c + carry
         IN  <<t % Base>> \o LMulAdd(Tail(a), c, t \div Base)

RECURSIVE LDivRem(_, _)
\* quotient (limbs, untrimmed) and remainder of a by d, for d below Base
LDivRem(a, d) ==
    IF a = <<>> THEN [q |-> <<>>, r |-> 0]
    ELSE LET hi  == LDivRem(Tail(a), d)
             cur == hi.r * Base + Head(a)
         IN  [q |-> <<cur \div d>> \o hi.q, r |-> cur % d]

\* a * 2^(k * LimbBits)
LShlLimbs(a, k) == IF a = <<>> THEN <<>> ELSE [i \in 1..k |-> 0] \o a

RECURSIVE IntBitLen(_)
IntBitLen(n) == IF n = 0 THEN 0 ELSE 1 + IntBitLen(n \div 2)

\* the number of bits of a trimmed natural number
BitLen(a) ==
    IF a = <<>> THEN 0 ELSE LimbBits * (Len(a) - 1) + IntBitLen(a[Len(a)])

\* bit i of a, bit 0 the least significant
Bit(a, i) ==
    IF i \div LimbBits >= Len(a) THEN 0
    ELSE (a[i \div LimbBits + 1] \div Pow2(i % LimbBits)) % 2

\* a \div 2^d
ShrBits(a, d) ==
    LET q == d \div LimbBits
        s == d % LimbBits
        b == IF q >= Len(a) THEN <<>> ELSE SubSeq(a, q + 1, Len(a))
    IN  LTrim([i \in 1..Len(b) |->
                 (b[i] \div Pow2(s))
                 + (IF i < Len(b) THEN (b[i + 1] % Pow2(s)) * Pow2(LimbBits - s)
                    ELSE 0)])

\* Round the natural number x (with `sticky`: a non-zero part below its last
\* bit was dropped) to MantissaBits bits, ties to even: [m, sh] with the
\* rounded value m * 2^sh.
RoundToMantissa(x0, sticky) ==
    LET x == LTrim(x0)
        L == BitLen(x)
    IN  IF L <= MantissaBits THEN [m |-> x, sh |-> 0]
        ELSE LET d     == L - MantissaBits
                 kept  == ShrBits(x, d)
                 guard == Bit(x, d - 1)
                 low   == sticky \/ \E i \in 0..(d - 2) : Bit(x, i) = 1
                 up    == guard = 1 /\ (low \/ Bit(kept, 0) = 1)
                 m     == IF up THEN LMulAdd(kept, 1, 1) ELSE kept
             IN  IF BitLen(m) > MantissaBits
                 THEN [m |-> ShrBits(m, 1), sh |-> d + 1]
                 ELSE [m |-> m, sh |-> d]

\* float("<digits>.<digits>"): the binary64 value nearest to num / den
FloatOfDecimal(num, den) ==
    IF num = 0 THEN [m |-> <<>>, e |-> 0]
    ELSE LET qr == LDivRem(LShlLimbs(Nat2Limbs(num), GuardLimbs), den)
             r  == RoundToMantissa(qr.q, qr.r # 0)
         IN  [m |-> r.m, e |-> r.sh - GuardBits]

\* x * c for a float x and a whole number c below Base
FMulInt(x, c) ==
    LET r == RoundToMantissa(LMulAdd(x.m, c, 0), FALSE)
    IN  [m |-> r.m, e |-> x.e + r.sh]

\* x / c for a float x and a whole number c below Base
FDivInt(x, c) ==
    IF x.m = <<>> THEN x
    ELSE LET qr == LDivRem(LShlLimbs(x.m, GuardLimbs), c)
             r  == RoundToMantissa(qr.q, qr.r # 0)
         IN  [m |-> r.m, e |-> x.e - GuardBits + r.sh]

\* int(x): truncation toward zero of a float 0 <= x < 2^31 (with e <= 0, as
\* every float built above from a numeral below 2^31 has)
FTrunc(x) == Limbs2Nat(ShrBits(x.m, 0 - x.e))

(***************************************************************************)
(* duration_string_to_minutes                                              *)
(***************************************************************************)
RECURSIVE DigitRun(_, _)
\* the number of consecutive digits of s from position i on
DigitRun(s, i) ==
    IF i <= Len(s) /\ IsDigit(s[i]) THEN 1 + DigitRun(s, i + 1) ELSE 0

RECURSIVE SpaceRun(_, _)
SpaceRun(s, i) ==
    IF i <= Len(s) /\ s[i] = " " THEN 1 + SpaceRun(s, i + 1) ELSE 0

\* Where a match of [0-9]*[.]?[0-9]+ that starts at position i ends (the
\* position after it), 0 when there is none: the digits are taken greedily,
\* then a dot if digits follow it; failing that the regex backtracks to the
\* digits alone.
NumeralEnd(s, i) ==
    LET a == DigitRun(s, i)
        j == i + a
    IN  IF j <= Len(s) /\ s[j] = "." /\ DigitRun(s, j + 1) >= 1
        THEN j + 1 + DigitRun(s, j + 1)
        ELSE IF a >= 1 THEN j ELSE 0

\* re.search("([0-9]*[.]?[0-9]+)( *)(.*)", s): the leftmost match, as the
\* groups 1 and 3, or None.
ReSearch(s) ==
    LET starts == {i \in 1..Len(s) : NumeralEnd(s, i) # 0}
    IN  IF starts = {} THEN [matched |-> FALSE]
        ELSE LET i  == CHOOSE x \in starts : \A y \in starts : x <= y
                 e  == NumeralEnd(s, i)
                 sp == SpaceRun(s, e)
             IN  [matched |-> TRUE,
                  group1  |-> SubSeq(s, i, e - 1),
                  group3  |-> SubSeq(s, e + sp, Len(s))]

RECURSIVE DigitsValue(_)
\* the whole number a string of digits writes
DigitsValue(d) ==
    IF d = <<>> THEN 0 ELSE 10 * DigitsValue(SubSeq(d, 1, Len(d) - 1)) + DigitVal(d[Len(d)])

RECURSIVE Pow10(_)
Pow10(k) == IF k = 0 THEN 1 ELSE 10 * Pow10(k - 1)

\* float(text) for a matched numeral: digits, or digits "." digits
FloatOfNumeral(text) ==
    LET dots == {i \in 1..Len(text) : text[i] = "."}
    IN  IF dots = {} THEN FloatOfDecimal(DigitsValue(text), 1)
        ELSE LET p    == CHOOSE i \in dots : TRUE
                 frac == SubSeq(text, p + 1, Len(text))
             IN  FloatOfDecimal(DigitsValue(SubSeq(text, 1, p - 1) \o frac),
                                Pow10(Len(frac)))

DayUnits == {<<"d">>, <<"d", "a", "y">>, <<"d", "a", "y", "s">>}

HourUnits == {<<"h">>, <<"h", "o", "u", "r">>, <<"h", "o", "u", "r", "s">>}

MinuteUnits == {<<"m">>, <<"m", "i", "n">>, <<"m", "i", "n", "s">>,
                <<"m", "i", "n", "u", "t", "e">>,
                <<"m", "i", "n", "u", "t", "e", "s">>, <<>>}

SecondUnits == {<<"s">>, <<"s", "e", "c">>, <<"s", "e", "c", "s">>,
                <<"s", "e", "c", "o", "n", "d">>,
                <<"s", "e", "c", "o", "n", "d", "s">>}

MinutesPerDay == 1440

MinutesPerHour == 60

SecondsPerMinute == 60

InvalidTimeString == "ValueError: Invalid time string"

InvalidUnitOfTime == "ValueError: Invalid unit of time"

\* The result of a call: a returned value, or the exception it raised.
Return(v) == [raised |-> "none", value |-> v]

Raise(exc) == [raised |-> exc]

duration_string_to_minutes(s) ==
    LET match == ReSearch(s)
    IN  IF ~match.matched THEN Raise(InvalidTimeString)
        ELSE LET amount == FloatOfNumeral(match.group1)
                 unit   == Lower(match.group3)
             IN  IF unit \in DayUnits THEN Return(FTrunc(FMulInt(amount, MinutesPerDay)))
                 ELSE IF unit \in HourUnits THEN Return(FTrunc(FMulInt(amount, MinutesPerHour)))
                 ELSE IF unit \in MinuteUnits THEN Return(FTrunc(amount))
                 ELSE IF unit \in SecondUnits THEN Return(FTrunc(FDivInt(amount, SecondsPerMinute)))
                 ELSE Raise(InvalidUnitOfTime)

(***************************************************************************)
(* The duration parser on its own: a call of duration_string_to_minutes    *)
(* for each duration string built from a numeral, spaces and a unit, and   *)
(* for strings without any digit.                                          *)
(***************************************************************************)
\* The largest whole part of a numeral, besides the two larger ones below.
MaxWhole == 4

\* The largest number of spaces between the numeral and the unit.
MaxSpaces == 1

NoPart == 0 - 1

\* Whole parts: 0..MaxWhole, and two larger ones (NoPart: no digits before
\* the dot, as in ".5").
WholeParts == (0..MaxWhole) \cup {16, 90, NoPart}

\* Fraction parts: one digit after a dot (NoPart: no dot).
FracParts == (0..9) \cup {NoPart}

Numerals == {n \in [whole : WholeParts, frac : FracParts] :
                 n.whole # NoPart \/ n.frac # NoPart}

KnownUnits == DayUnits \cup HourUnits \cup MinuteUnits \cup SecondUnits

\* Units as the caller may write them: every recognized unit, some of them
\* in upper or mixed case, and unit tokens that are not recognized.
UnitTokens ==
    KnownUnits
    \cup {<<"H">>, <<"D", "a", "y">>, <<"M", "I", "N", "S">>, <<"S", "e", "c">>}
    \cup {<<"f", "o", "r", "t", "n", "i", "g", "h", "t", "s">>, <<"x">>,
          <<"h", "r", "s">>, <<"w">>}

\* Strings in which no numeral can be matched.
DigitFree == {<<"a", "b", "c">>, <<>>, <<".">>, <<"h">>, <<" ">>, <<" ", "h">>,
              <<"m", "i", "n">>}

RECURSIVE Nat2Digits(_)
\* str(n) for a natural number
Nat2Digits(n) ==
    IF n < 10 THEN <<DigitChars[n + 1]>>
    ELSE Nat2Digits(n \div 10) \o <<DigitChars[(n % 10) + 1]>>

NumeralText(n) ==
    (IF n.whole = NoPart THEN <<>> ELSE Nat2Digits(n.whole))
    \o (IF n.frac = NoPart THEN <<>> ELSE <<".">> \o Nat2Digits(n.frac))

DurationText(n, spaces, unit) ==
    NumeralText(n) \o [i \in 1..spaces |-> " "] \o unit

DurationInit ==
    /\ \/ \E n \in Numerals, sp \in 0..MaxSpaces, u \in UnitTokens :
            dq = [phase |-> "call", kind |-> "numeral", numeral |-> n,
                  spaces |-> sp, unit |-> u, s |-> DurationText(n, sp, u)]
       \/ \E g \in DigitFree :
            dq = [phase |-> "call", kind |-> "digit-free", s |-> g]
    /\ fs = Unused /\ env = Unused /\ last = Unused
    /\ fr = Unused /\ nq = Unused /\ calls = Unused

\* The caller's call of duration_string_to_minutes(dq.s).
CallDuration ==
    /\ dq.phase = "call"
    /\ dq' = [dq EXCEPT !.phase = "done"] @@ [result |-> duration_string_to_minutes(dq.s)]
    /\ UNCHANGED <<fs, env, last, fr, nq, calls>>

DurationNext == CallDuration

SpecDuration == DurationInit /\ [][DurationNext]_vars

(***************************************************************************)
(* C7                                                                      *)
(***************************************************************************)
\* The numeral n as the fraction NumeralTenths(n) / 10.
NumeralTenths(n) ==
    10 * (IF n.whole = NoPart THEN 0 ELSE n.whole)
    + (IF n.frac = NoPart THEN 0 ELSE n.frac)

\* The minutes the numeral n with the unit u stands for, truncated: the
\* numeral times 1440, times 60, times 1, or divided by 60.
ExactMinutes(n, u) ==
    IF Lower(u) \in DayUnits THEN (NumeralTenths(n) * 1440) \div 10
    ELSE IF Lower(u) \in HourUnits THEN (NumeralTenths(n) * 60) \div 10
    ELSE IF Lower(u) \in MinuteUnits THEN NumeralTenths(n) \div 10
    ELSE NumeralTenths(n) \div 600

\* C7: for every duration string made of a numeral, optional spaces and a
\* unit token, duration_string_to_minutes returns the numeral times 1440
\* (days), times 60 (hours), times 1 (minutes, or no unit) or divided by 60
\* (seconds), truncated to whole minutes, units matched case-insensitively;
\* it fails with the unknown-unit error for an unrecognized non-empty unit
\* and with the invalid-duration error when no numeral can be matched.
C7_DurationAsStated ==
    dq.phase = "done" =>
        IF dq.kind = "digit-free" THEN dq.result = Raise(InvalidTimeString)
        ELSE IF Lower(dq.unit) \in KnownUnits
             THEN dq.result = Return(ExactMinutes(dq.numeral, dq.unit))
             ELSE dq.result = Raise(InvalidUnitOfTime)

(***************************************************************************)
(* Paths.  A path string is modelled split at its "/" characters: a        *)
(* sequence of segments, each a string.  A trailing slash shows as an      *)
(* empty last segment ("exp/" is <<"exp", "">>), so the mapping from path  *)
(* strings to segment sequences is one-to-one.                             *)
(***************************************************************************)
Dot == <<".">>

\* os.path.split(path)[1]: what follows the last slash
SplitTail(path) == path[Len(path)]

\* os.path.join(path, name) for a relative one-segment name: a slash is
\* added unless path already ends with one
PathJoin(path, name) ==
    IF path[Len(path)] = <<>> THEN SubSeq(path, 1, Len(path) - 1) \o <<name>>
    ELSE path \o <<name>>

RECURSIVE NormPath(_)
\* os.path.normpath for a relative path without "..": empty and "."
\* segments are dropped
NormPath(path) ==
    IF path = <<>> THEN <<>>
    ELSE IF Head(path) = <<>> \/ Head(path) = Dot THEN NormPath(Tail(path))
    ELSE <<Head(path)>> \o NormPath(Tail(path))

\* os.path.relpath(path, start=start) for a path below start: "." for
\* start itself
RelPath(path, start) ==
    LET p == NormPath(path)
        s == NormPath(start)
        r == SubSeq(p, Len(s) + 1, Len(p))
    IN  IF r = <<>> THEN <<Dot>> ELSE r

(***************************************************************************)
(* find_runs_rec.  fr.dirs is the set of directories and fr.files the set  *)
(* of other entries of the file system, as normalized paths.               *)
(***************************************************************************)
ChkptMarker == <<"c", "h", "k", "p", "t">>

FullConfigName == <<"f", "u", "l", "l", "_", "c", "o", "n", "f", "i", "g", ".", "y", "m", "l">>

ResultsName == <<"r", "e", "s", "u", "l", "t", "s", ".", "b", "z", "2">>

frExists(path) == NormPath(path) \in fr.dirs \cup fr.files

frIsDir(path) == NormPath(path) \in fr.dirs

is_checkpoint(path) == Contains(Lower(SplitTail(path)), ChkptMarker)

contains_run(path) ==
    IF ~frExists(PathJoin(path, FullConfigName)) THEN FALSE
    ELSE IF ~frExists(PathJoin(path, ResultsName)) THEN FALSE
    ELSE TRUE

RECURSIVE Walk(_, _)
\* [p[0] for p in os.walk(top)]: top, then the walk of each subdirectory
\* of top, the subdirectories taken in the order `order` lists their names
\* (the order in which the file system lists them)
Walk(top, order) ==
    LET RECURSIVE Subs(_)
        Subs(i) ==
            IF i > Len(order) THEN <<>>
            ELSE (IF frIsDir(PathJoin(top, order[i]))
                  THEN Walk(PathJoin(top, order[i]), order) ELSE <<>>)
                 \o Subs(i + 1)
    IN  <<top>> \o Subs(1)

RECURSIVE SelectRuns(_, _, _)
\* the loop over paths_to_check of find_runs_rec
SelectRuns(paths_to_check, path, include_checkpoints) ==
    IF paths_to_check = <<>> THEN <<>>
    ELSE LET p == Head(paths_to_check)
         IN  (IF contains_run(p) /\ (include_checkpoints \/ ~is_checkpoint(p))
              THEN <<RelPath(p, path)>> ELSE <<>>)
             \o SelectRuns(Tail(paths_to_check), path, include_checkpoints)

find_runs_rec(path, include_checkpoints, order) ==
    SelectRuns(Walk(path, order), path, include_checkpoints)

(***************************************************************************)
(* Run discovery on its own: a call of find_runs_rec for each directory    *)
(* tree of at most MaxDirs directories below the root.                     *)
(***************************************************************************)
\* The largest number of directories below the root.
MaxDirs == 2

NameRunA == <<"r", "u", "n", "A">>

NameChkpt5 == <<"b", "_", "C", "h", "K", "p", "t", "5">>

DirNames == {NameRunA, NameChkpt5}

NameExp == <<"e", "x", "p">>

NameOldChkpt == <<"o", "l", "d", "_", "c", "h", "k", "p", "t">>

\* The root as the caller writes it: "exp", "old_chkpt", "old_chkpt/".
RootPaths == {<<NameExp>>, <<NameOldChkpt>>, <<NameOldChkpt, <<>>>>}

RunFileNames == {FullConfigName, ResultsName}

\* The directories that can be added to the tree T (a set of paths below
\* the root): a child of the root or of a directory of T.
Extensions(T) == {n \o <<d>> : n \in T \cup {<<>>}, d \in DirNames} \ T

RECURSIVE TreesUpTo(_)
TreesUpTo(k) ==
    IF k = 0 THEN {{}}
    ELSE LET prev == TreesUpTo(k - 1)
         IN  prev \cup UNION {{T \cup {x} : x \in Extensions(T)} : T \in prev}

\* The orders in which the file system may list the names.
DirOrders ==
    {o \in [1..Cardinality(DirNames) -> DirNames] :
        \A i, j \in DOMAIN o : o[i] = o[j] => i = j}

FindInit ==
    /\ \E root \in RootPaths, T \in TreesUpTo(MaxDirs), inc \in BOOLEAN :
         \E f \in [T \cup {<<>>} -> SUBSET RunFileNames] :
            fr = [phase |-> "call", path |-> root, include_checkpoints |-> inc,
                  dirs  |-> {NormPath(root) \o n : n \in T \cup {<<>>}},
                  files |-> UNION {{NormPath(root) \o n \o <<x>> : x \in f[n]} :
                                      n \in T \cup {<<>>}}]
    /\ fs = Unused /\ env = Unused /\ last = Unused
    /\ dq = Unused /\ nq = Unused /\ calls = Unused

\* The caller's call of find_runs_rec(fr.path, fr.include_checkpoints).
CallFindRuns ==
    /\ fr.phase = "call"
    /\ \E order \in DirOrders :
         fr' = [fr EXCEPT !.phase = "done"]
               @@ [result |-> find_runs_rec(fr.path, fr.include_checkpoints, order)]
    /\ UNCHANGED <<fs, env, last, dq, nq, calls>>

FindNext == CallFindRuns

SpecFind == FindInit /\ [][FindNext]_vars

(***************************************************************************)
(* C6                                                                      *)
(***************************************************************************)
\* The name of the directory the path names: its last non-empty segment.
DirectoryName(path) == LET p == NormPath(path) IN p[Len(p)]

\* The directories at or below the root that directly contain both files.
RunDirs ==
    {d \in fr.dirs : d \o <<FullConfigName>> \in fr.files
                     /\ d \o <<ResultsName>> \in fr.files}

Range(s) == {s[i] : i \in DOMAIN s}

\* C6: find_runs_rec(root, include_checkpoints) returns exactly the
\* directories under root (as paths relative to root) that directly
\* contain both full_config.yml and results.bz2; without include_checkpoints
\* it leaves out exactly those whose own directory name contains "chkpt"
\* case-insensitively, and with it it leaves out none.
C6_FindRunsAsStated ==
    fr.phase = "done" =>
        Range(fr.result) =
            {RelPath(d, fr.path) :
                d \in {x \in RunDirs :
                          fr.include_checkpoints
                          \/ ~Contains(Lower(DirectoryName(x)), ChkptMarker)}}

(***************************************************************************)
(* append_nfs_to_fullpaths.  `existing` is the set of path strings for     *)
(* which os.path.exists answers True.                                      *)
(***************************************************************************)
NfsPrefix == <<"/", "n", "f", "s">>

Slash == <<"/">>

\* NfsToken without the os.path.exists test.
NfsTokenNoExists(r, existing) ==
    IF StartsWith(r, Slash) THEN NfsPrefix \o r ELSE r

\* One round of the loop: the token r, rewritten or kept.
NfsToken(r, existing) ==
    IF StartsWith(r, Slash) /\ r \in existing THEN NfsPrefix \o r ELSE r

append_nfs_to_fullpaths(command, existing) ==
    [idx \in 1..Len(command) |-> NfsToken(command[idx], existing)]

(***************************************************************************)
(* The path rewriting on its own: a call of append_nfs_to_fullpaths for    *)
(* each command of at most MaxCmdLen tokens and each set of existing paths.*)
(***************************************************************************)
\* The largest number of tokens of a command.
MaxCmdLen == 3

TokPython == <<"p", "y">>

TokAbsA == <<"/", "a">>

TokAbsB == <<"/", "b", "/", "c">>

TokRel == <<"c", "/", "d">>

CmdTokens == {TokPython, TokAbsA, TokAbsB, TokRel, <<>>}

\* The tokens that may name an existing path.
PathTokens == {TokAbsA, TokAbsB, TokRel}

RECURSIVE SeqsUpTo(_, _)
\* the sequences over S of length at most n
SeqsUpTo(S, n) ==
    IF n = 0 THEN {<<>>}
    ELSE LET shorter == SeqsUpTo(S, n - 1)
         IN  shorter \cup {Append(s, x) : s \in shorter, x \in S}

NfsInit ==
    /\ \E c \in SeqsUpTo(CmdTokens, MaxCmdLen), ex \in SUBSET PathTokens :
         nq = [phase |-> "call", command |-> c, existing |-> ex]
    /\ fs = Unused /\ env = Unused /\ last = Unused
    /\ dq = Unused /\ fr = Unused /\ calls = Unused

\* The caller's call of append_nfs_to_fullpaths(nq.command).
CallAppendNfs ==
    /\ nq.phase = "call"
    /\ nq' = [nq EXCEPT !.phase = "done"]
             @@ [result |-> append_nfs_to_fullpaths(nq.command, nq.existing)]
    /\ UNCHANGED <<fs, env, last, dq, fr, calls>>

NfsNext == CallAppendNfs

SpecNfs == NfsInit /\ [][NfsNext]_vars

(***************************************************************************)
(* C8                                                                      *)
(***************************************************************************)
IsAbsolute(tok) == Len(tok) >= 1 /\ tok[1] = "/"

\* C8: append_nfs_to_fullpaths returns a command of the same length and
\* order in which every token that starts with "/" and names an existing
\* path is prefixed with "/nfs", and every other token (relative, or
\* absolute but not existing) is left untouched.
C8_NfsRewrite ==
    nq.phase = "done" =>
        /\ Len(nq.result) = Len(nq.command)
        /\ \A i \in 1..Len(nq.command) :
             LET tok == nq.command[i]
             IN  /\ (IsAbsolute(tok) /\ tok \in nq.existing)
                        => nq.result[i] = <<"/", "n", "f", "s">> \o tok
                 /\ (~IsAbsolute(tok) \/ tok \notin nq.existing)
                        => nq.result[i] = tok

\* A call that rewrote one token and left alone a relative token that
\* exists and an absolute token that does not.
C8_Witness ==
    /\ nq.phase = "done"
    /\ \E i, j, k \in 1..Len(nq.command) :
         /\ nq.result[i] = <<"/", "n", "f", "s">> \o nq.command[i]
         /\ ~IsAbsolute(nq.command[j]) /\ nq.command[j] \in nq.existing
         /\ nq.result[j] = nq.command[j]
         /\ IsAbsolute(nq.command[k]) /\ nq.command[k] \notin nq.existing
         /\ nq.result[k] = nq.command[k]

(***************************************************************************)
(* The file system.  fs.dirs is the set of directories and fs.files maps   *)
(* each regular file to its content; paths are normalized and relative to  *)
(* the working directory of the process, which always exists.              *)
(***************************************************************************)
IsPrefix(a, b) == Len(a) <= Len(b) /\ SubSeq(b, 1, Len(a)) = a

\* os.path.isdir
IsDir(f, path) == NormPath(path) = <<>> \/ NormPath(path) \in f.dirs

\* os.path.exists
Exists(f, path) == IsDir(f, path) \/ NormPath(path) \in DOMAIN f.files

\* shutil.rmtree(path) for a directory: the directory and all below it go
RmTree(f, path) ==
    LET p == NormPath(path)
    IN  [dirs  |-> {d \in f.dirs : ~IsPrefix(p, d)},
         files |-> [q \in {x \in DOMAIN f.files : ~IsPrefix(p, x)} |-> f.files[q]]]

\* The proper, non-empty prefixes of a path: its ancestors below the
\* working directory.
Ancestors(p) == {SubSeq(p, 1, k) : k \in 1..(Len(p) - 1)}

\* os.makedirs(path): the directory and its missing ancestors are created;
\* it fails when the path exists, or when an ancestor is a regular file.
MakeDirs(f, path) ==
    LET p == NormPath(path)
    IN  IF Exists(f, p) THEN [fs |-> f, raised |-> "FileExistsError"]
        ELSE IF \E a \in Ancestors(p) : a \in DOMAIN f.files
        THEN [fs |-> f, raised |-> "NotADirectoryError"]
        ELSE [fs |-> [f EXCEPT !.dirs = @ \cup Ancestors(p) \cup {p}],
              raised |-> "none"]

\* Why open(path, 'w') fails, "none" when it does not.
OpenWriteError(f, path) ==
    LET p == NormPath(path)
    IN  IF IsDir(f, p) THEN "IsADirectoryError"
        ELSE IF ~IsDir(f, SubSeq(p, 1, Len(p) - 1)) THEN "FileNotFoundError"
        ELSE "none"

\* open(path, 'w'), f.write(content), close: the file is created or
\* truncated, and holds content.
WriteFile(f, path, content) ==
    LET p == NormPath(path)
    IN  [f EXCEPT !.files = [q \in DOMAIN f.files \cup {p} |->
                                IF q = p THEN content ELSE f.files[q]]]

EmptyContent == <<>>

(***************************************************************************)
(* setup_experiment_dir, setup_job_dir, idx_to_job_name                    *)
(***************************************************************************)
DirectoryAlreadyExists == "FileExistsError: Could not create experiment: Directory already exists."

\* setup_experiment_dir removing the tree before it looks at force.
SetupExperimentDirClearing(f, directory, force) ==
    LET cleared == IF IsDir(f, directory) THEN RmTree(f, directory) ELSE f
        made    == MakeDirs(cleared, directory)
    IN  IF IsDir(f, directory) /\ ~force
        THEN [fs |-> cleared, raised |-> DirectoryAlreadyExists, log |-> <<>>]
        ELSE IF made.raised # "none"
        THEN [fs |-> cleared, raised |-> made.raised, log |-> <<>>]
        ELSE [fs |-> made.fs, raised |-> "none", value |-> directory, log |-> <<>>]

\* The result of a directory operation: the file system after it, what it
\* raised ("none": it returned value), and what it logged.
setup_experiment_dir(f, directory, force) ==
    LET cleared == IF IsDir(f, directory) /\ force THEN RmTree(f, directory) ELSE f
        made    == MakeDirs(cleared, directory)
    IN  IF IsDir(f, directory) /\ ~force
        THEN [fs |-> f, raised |-> DirectoryAlreadyExists, log |-> <<>>]
        ELSE IF made.raised # "none"
        THEN [fs |-> cleared, raised |-> made.raised, log |-> <<>>]
        ELSE [fs |-> made.fs, raised |-> "none", value |-> directory, log |-> <<>>]

AlreadyExistsWarning == "WARNING: Directory already exists. Results might be overwritten."

\* setup_job_dir clearing a directory that exists, as setup_experiment_dir
\* does under force.
SetupJobDirFresh(f, parent_dir, name) ==
    LET job_dir == PathJoin(parent_dir, name)
        cleared == IF IsDir(f, job_dir) THEN RmTree(f, job_dir) ELSE f
        made    == MakeDirs(cleared, job_dir)
    IN  IF made.raised # "none"
        THEN [fs |-> cleared, raised |-> made.raised, log |-> <<>>]
        ELSE [fs |-> made.fs, raised |-> "none", value |-> job_dir, log |-> <<>>]

setup_job_dir(f, parent_dir, name) ==
    LET job_dir == PathJoin(parent_dir, name)
        made    == MakeDirs(f, job_dir)
    IN  IF Exists(f, job_dir)
        THEN [fs |-> f, raised |-> "none", value |-> job_dir,
              log |-> <<AlreadyExistsWarning>>]
        ELSE IF made.raised # "none"
        THEN [fs |-> f, raised |-> made.raised, log |-> <<>>]
        ELSE [fs |-> made.fs, raised |-> "none", value |-> job_dir, log |-> <<>>]

JobNameWidth == 4

\* f"{idx:04d}"
idx_to_job_name(idx) ==
    LET d == Nat2Digits(idx)
    IN  [i \in 1..(JobNameWidth - Len(d)) |-> "0"] \o d

(***************************************************************************)
(* The job script templates.  A script is the record of what its template  *)
(* holds: the fixed directives by name, with the values filled in.         *)
(***************************************************************************)
QueueA40Dual == <<"g", "p", "u", "_", "a", "4", "0", "d", "u", "a", "l">>

get_jobfile_content_vsc4(command, jobname, queue, time) ==
    [template |-> "vsc4", J |-> jobname, N |-> "1", partition |-> queue,
     qos |-> queue, output |-> "CPU.out", time |-> time, command |-> command]

get_jobfile_content_vsc3(command, jobname, queue, time, conda_env) ==
    [template |-> "vsc3", J |-> jobname,
     N |-> IF queue # QueueA40Dual THEN "1" ELSE "",
     partition |-> queue, qos |-> queue, output |-> "GPU.out", time |-> time,
     gres |-> "gpu:1", conda_activate |-> conda_env, command |-> command]

get_jobfile_content_dgx(command, jobname, jobdir, time, conda_env, src_dir) ==
    [template |-> "dgx", J |-> jobname, N |-> "1", output |-> "GPU.out",
     time |-> time, gres |-> "gpu:1", chdir |-> jobdir,
     conda_activate |-> conda_env, PYTHONPATH |-> src_dir, command |-> command]

(***************************************************************************)
(* The dispatch handlers.  Each gives the file system after the call, what *)
(* it raised, and the side effects of the dispatcher in order: a file      *)
(* opened for writing, a process launched.  What the launched process does *)
(* is not the dispatcher's and is left out.                                *)
(***************************************************************************)
JobScriptName == <<"j", "o", "b", ".", "s", "h">>

GpuOutName == <<"G", "P", "U", ".", "o", "u", "t">>

Space == <<" ">>

SbatchCommand == <<<<"s", "b", "a", "t", "c", "h">>, JobScriptName>>

QueueDefault == <<"d", "e", "f", "a", "u", "l", "t">>

QueueVsc3 == <<"g", "p", "u", "_", "r", "t", "x", "2", "0", "8", "0", "t", "i">>

QueueVsc4 == <<"m", "e", "m", "_", "0", "0", "9", "6">>

HomePrefix == <<"/", "h", "o", "m", "e">>

OpenedForWriting(path) == [effect |-> "open for writing", path |-> NormPath(path)]

\* subprocess.run(argv, cwd=cwd): launched, and waited for
Ran(argv, cwd) == [effect |-> "process", argv |-> argv, cwd |-> NormPath(cwd), detached |-> FALSE]

\* subprocess.Popen(argv, stdout=f, stderr=f, start_new_session=True, cwd=cwd)
Spawned(argv, cwd, out) ==
    [effect |-> "process", argv |-> argv, cwd |-> NormPath(cwd), detached |-> TRUE,
     stdout |-> NormPath(out)]

Failed(f, exc) == [fs |-> f, raised |-> exc, effects |-> <<>>]

\* dispatch_to_local keeping the output of the run in GPU.out.
DispatchToLocalLogged(f, e, command, run_dir, config) ==
    LET out == PathJoin(run_dir, GpuOutName)
    IN  IF OpenWriteError(f, out) # "none" THEN Failed(f, OpenWriteError(f, out))
        ELSE [fs |-> WriteFile(f, out, EmptyContent), raised |-> "none",
              effects |-> <<OpenedForWriting(out), Ran(command, run_dir)>>]

dispatch_to_local(f, e, command, run_dir, config) ==
    IF ~IsDir(f, run_dir) THEN Failed(f, "FileNotFoundError")
    ELSE [fs |-> f, raised |-> "none", effects |-> <<Ran(command, run_dir)>>]

dispatch_to_local_background(f, e, command, run_dir, config) ==
    LET out == PathJoin(run_dir, GpuOutName)
    IN  IF OpenWriteError(f, out) # "none" THEN Failed(f, OpenWriteError(f, out))
        ELSE [fs |-> WriteFile(f, out, EmptyContent), raised |-> "none",
              effects |-> <<OpenedForWriting(out), Spawned(command, run_dir, out)>>]

\* with open(os.path.join(run_dir, 'job.sh'), 'w') as f: f.write(...), then
\* subprocess.run(['sbatch', 'job.sh'], cwd=run_dir): the end of the three
\* cluster handlers
WriteAndSubmit(f, run_dir, jobfile_content) ==
    LET script == PathJoin(run_dir, JobScriptName)
    IN  IF OpenWriteError(f, script) # "none" THEN Failed(f, OpenWriteError(f, script))
        ELSE [fs |-> WriteFile(f, script, jobfile_content), raised |-> "none",
              effects |-> <<OpenedForWriting(script), Ran(SbatchCommand, run_dir)>>]

\* dispatch_to_vsc3 opening job.sh before it parses the time budget.
DispatchToVsc3WriteFirst(f, e, command, run_dir, config) ==
    LET script == PathJoin(run_dir, JobScriptName)
        time_in_minutes == duration_string_to_minutes(config.time)
        queue == IF config.queue = QueueDefault THEN QueueVsc3 ELSE config.queue
        jobfile_content ==
            get_jobfile_content_vsc3(Join(command, Space), config.experiment_name,
                                     queue, time_in_minutes.value, config.conda_env)
    IN  IF OpenWriteError(f, script) # "none" THEN Failed(f, OpenWriteError(f, script))
        ELSE IF time_in_minutes.raised # "none"
        THEN [fs |-> WriteFile(f, script, EmptyContent),
              raised |-> time_in_minutes.raised,
              effects |-> <<OpenedForWriting(script)>>]
        ELSE WriteAndSubmit(f, run_dir, jobfile_content)

dispatch_to_vsc3(f, e, command, run_dir, config) ==
    LET time_in_minutes == duration_string_to_minutes(config.time)
        queue == IF config.queue = QueueDefault THEN QueueVsc3 ELSE config.queue
        jobfile_content ==
            get_jobfile_content_vsc3(Join(command, Space), config.experiment_name,
                                     queue, time_in_minutes.value, config.conda_env)
    IN  IF time_in_minutes.raised # "none" THEN Failed(f, time_in_minutes.raised)
        ELSE WriteAndSubmit(f, run_dir, jobfile_content)

dispatch_to_vsc4(f, e, command, run_dir, config) ==
    LET time_in_minutes == duration_string_to_minutes(config.time)
        queue == IF config.queue = QueueDefault THEN QueueVsc4 ELSE config.queue
        jobfile_content ==
            get_jobfile_content_vsc4(Join(command, Space), config.experiment_name,
                                     queue, time_in_minutes.value)
    IN  IF time_in_minutes.raised # "none" THEN Failed(f, time_in_minutes.raised)
        ELSE WriteAndSubmit(f, run_dir, jobfile_content)

\* str(path) of an absolute path
PathString(path) == Join(path, Slash)

\* Path(path).resolve() of an absolute or relative path without links
Resolve(e, path) == IF path # <<>> /\ Head(path) = <<>> THEN path ELSE e.cwd \o NormPath(path)

_map_dgx_path(e, path) ==
    LET resolved == PathString(Resolve(e, path))
    IN  IF StartsWith(resolved, HomePrefix) THEN NfsPrefix \o resolved ELSE resolved

dispatch_to_dgx(f, e, command0, run_dir, config) ==
    LET command == append_nfs_to_fullpaths(command0, e.existing)
        time_in_minutes == duration_string_to_minutes(config.time)
        src_dir == _map_dgx_path(e, e.src_dir)
        jobfile_content ==
            get_jobfile_content_dgx(Join(command, Space), config.experiment_name,
                                    _map_dgx_path(e, run_dir),
                                    time_in_minutes.value, config.conda_env, src_dir)
    IN  IF time_in_minutes.raised # "none" THEN Failed(f, time_in_minutes.raised)
        ELSE WriteAndSubmit(f, run_dir, jobfile_content)

(***************************************************************************)
(* dispatch_job.  The environment e of the process: its host name, the     *)
(* file /etc/slurm/slurm.conf (absent, or its lines), os.environ, the      *)
(* working directory, the directory of the package and the absolute paths  *)
(* that exist.                                                             *)
(***************************************************************************)
SysAuto == <<"a", "u", "t", "o">>

SysLocal == <<"l", "o", "c", "a", "l">>

SysLocalBackground == <<"l", "o", "c", "a", "l", "_", "b", "a", "c", "k", "g", "r", "o", "u", "n", "d">>

SysVsc3 == <<"v", "s", "c", "3">>

SysVsc4 == <<"v", "s", "c", "4">>

SysDgx == <<"d", "g", "x">>

HgxHostName == <<"g", "p", "u", "1", "-", "m", "a", "t">>

SlurmDomainMarker == <<"s", "l", "u", "r", "m", ".", "v", "d", "a", ".", "u", "n", "i", "v", "i", "e", ".", "a", "c", ".", "a", "t">>

HandlerPrefix == <<"d", "i", "s", "p", "a", "t", "c", "h", "_", "t", "o", "_">>

\* The functions of the module whose name starts with dispatch_to_.
HandlerGlobals == {HandlerPrefix \o SysLocal, HandlerPrefix \o SysLocalBackground,
                   HandlerPrefix \o SysVsc3, HandlerPrefix \o SysVsc4,
                   HandlerPrefix \o SysDgx}

\* Lines 213-224 with the override looked at only when no probe matched.
ResolveProbesFirst(e, system) ==
    IF system # SysAuto THEN system
    ELSE IF e.hostname = HgxHostName THEN SysLocalBackground
    ELSE IF e.slurm_conf.exists /\ Contains(Join(e.slurm_conf.lines, <<>>), SlurmDomainMarker)
    THEN SysDgx
    ELSE IF "HPC_SYSTEM" \in DOMAIN e.environ THEN Lower(e.environ["HPC_SYSTEM"])
    ELSE SysLocal

\* Lines 213-224 with the scheduler file's contents not looked at.
ResolveNoMarkerTest(e, system) ==
    IF system # SysAuto THEN system
    ELSE IF "HPC_SYSTEM" \in DOMAIN e.environ THEN Lower(e.environ["HPC_SYSTEM"])
    ELSE IF e.hostname = HgxHostName THEN SysLocalBackground
    ELSE IF e.slurm_conf.exists THEN SysDgx
    ELSE SysLocal

\* Lines 213-224 with the override looked at outside the "auto" branch.
ResolveOverrideAlways(e, system) ==
    IF "HPC_SYSTEM" \in DOMAIN e.environ THEN Lower(e.environ["HPC_SYSTEM"])
    ELSE IF system # SysAuto THEN system
    ELSE IF e.hostname = HgxHostName THEN SysLocalBackground
    ELSE IF e.slurm_conf.exists /\ Contains(Join(e.slurm_conf.lines, <<>>), SlurmDomainMarker)
    THEN SysDgx
    ELSE SysLocal

\* Lines 213-224: the backend name dispatch_job goes on with.
ResolveDispatchTo(e, system) ==
    IF system = SysAuto
    THEN LET probed ==
                 IF e.hostname = HgxHostName THEN SysLocalBackground
                 ELSE IF e.slurm_conf.exists
                         /\ Contains(Join(e.slurm_conf.lines, <<>>), SlurmDomainMarker)
                 THEN SysDgx
                 ELSE SysLocal
         IN  IF "HPC_SYSTEM" \in DOMAIN e.environ
             THEN Lower(e.environ["HPC_SYSTEM"])
             ELSE probed
    ELSE system

\* globals()[f"dispatch_to_{dispatch_to}"](fname, job_dir, config)
CallHandler(f, e, dispatch_to, fname, job_dir, config) ==
    IF HandlerPrefix \o dispatch_to \notin HandlerGlobals THEN Failed(f, "KeyError")
    ELSE IF dispatch_to = SysLocal THEN dispatch_to_local(f, e, fname, job_dir, config)
    ELSE IF dispatch_to = SysLocalBackground
    THEN dispatch_to_local_background(f, e, fname, job_dir, config)
    ELSE IF dispatch_to = SysVsc3 THEN dispatch_to_vsc3(f, e, fname, job_dir, config)
    ELSE IF dispatch_to = SysVsc4 THEN dispatch_to_vsc4(f, e, fname, job_dir, config)
    ELSE dispatch_to_dgx(f, e, fname, job_dir, config)

dispatch_job(f, e, fname, job_dir, config) ==
    LET dispatch_to == ResolveDispatchTo(e, config.system)
    IN  CallHandler(f, e, dispatch_to, fname, job_dir, config)
        @@ [dispatch_to |-> dispatch_to,
            log |-> <<[level |-> "INFO", dispatching_to |-> dispatch_to]>>]

(***************************************************************************)
(* The operations as the steps of a caller.  last is the record of the     *)
(* last call: its arguments and what it returned, raised, logged and did.  *)
(***************************************************************************)
SetupExperimentDir(directory, force) ==
    \E r \in {setup_experiment_dir(fs, directory, force)} :
        /\ fs' = r.fs
        /\ last' = [op |-> "setup_experiment_dir", directory |-> directory,
                    force |-> force, raised |-> r.raised, log |-> r.log,
                    value |-> IF r.raised = "none" THEN r.value ELSE <<>>]
        /\ UNCHANGED <<env, dq, fr, nq, calls>>

SetupJobDir(parent_dir, name) ==
    \E r \in {setup_job_dir(fs, parent_dir, name)} :
        /\ fs' = r.fs
        /\ last' = [op |-> "setup_job_dir", parent_dir |-> parent_dir,
                    name |-> name, raised |-> r.raised, log |-> r.log,
                    value |-> IF r.raised = "none" THEN r.value ELSE <<>>]
        /\ UNCHANGED <<env, dq, fr, nq, calls>>

DispatchJob(fname, job_dir, config) ==
    \E r \in {dispatch_job(fs, env, fname, job_dir, config)} :
        /\ fs' = r.fs
        /\ last' = [op |-> "dispatch_job", fname |-> fname, job_dir |-> job_dir,
                    config |-> config, dispatch_to |-> r.dispatch_to,
                    raised |-> r.raised, log |-> r.log, effects |-> r.effects]
        /\ UNCHANGED <<env, dq, fr, nq, calls>>

(***************************************************************************)
(* The inputs                                                              *)
(***************************************************************************)
\* The number of jobs of the experiment: job directories 0000, 0001, ...
MaxJobs == 1

JobNames == {idx_to_job_name(i) : i \in 0..(MaxJobs - 1)}

ExpPath == <<NameExp>>

\* A path of the working directory that is a regular file.
NotesPath == <<<<"n", "o", "t", "e", "s">>>>

JobDirs == {PathJoin(ExpPath, n) : n \in JobNames}

SysUnknown == <<"s", "l", "u", "r", "m">>

Systems == {SysAuto, SysLocal, SysLocalBackground, SysVsc3, SysVsc4, SysDgx, SysUnknown}

\* Time budgets: "2h", and two malformed ones, "5 fortnights" and "abc".
TimeTwoHours == <<"2", "h">>

TimeFortnights == <<"5", " ", "f", "o", "r", "t", "n", "i", "g", "h", "t", "s">>

TimeAbc == <<"a", "b", "c">>

Times == {TimeTwoHours, TimeFortnights, TimeAbc}

Queues == {QueueDefault, QueueA40Dual}

\* Every backend with every time budget, and with every queue where the
\* time budget is well-formed.
Configs == {c \in [system : Systems, time : Times, queue : Queues,
                   conda_env : {<<"j", "a", "x">>}, experiment_name : {<<"H", "2">>}] :
              c.time = TimeTwoHours \/ c.queue = QueueDefault}

TokScript == <<"/", "h", "o", "m", "e", "/", "u", "/", "r", "u", "n", ".", "p", "y">>

Command == <<<<"p", "y", "t", "h", "o", "n">>, TokScript, <<"-", "v">>>>

\* /etc/slurm/slurm.conf: absent, of the DGX cluster (the marker in its
\* second line), of another cluster, and with the marker's text broken
\* over two lines.
SlurmAbsent == [exists |-> FALSE, lines |-> <<>>]

SlurmDgx == [exists |-> TRUE,
             lines |-> <<<<"C", "l", "u", "s", "t", "e", "r", "N", "a", "m", "e", "=", "d", "g", "x", "\n">>, <<"H", "o", "s", "t", "=", "s", "l", "u", "r", "m", ".", "v", "d", "a", ".", "u", "n", "i", "v", "i", "e", ".", "a", "c", ".", "a", "t", "\n">>>>]

SlurmOther == [exists |-> TRUE, lines |-> <<<<"H", "o", "s", "t", "=", "s", "l", "u", "r", "m", ".", "v", "s", "c", ".", "a", "c", ".", "a", "t", "\n">>>>]

SlurmBroken == [exists |-> TRUE, lines |-> <<<<"s", "l", "u", "r", "m", ".", "v", "d", "a", ".", "\n">>, <<"u", "n", "i", "v", "i", "e", ".", "a", "c", ".", "a", "t", "\n">>>>]

SlurmConfs == {SlurmAbsent, SlurmDgx, SlurmOther, SlurmBroken}

\* HPC_SYSTEM as it may be set, with its lower-case form.
HpcValues == {[raw |-> <<"v", "s", "c", "3">>, lowered |-> <<"v", "s", "c", "3">>],
              [raw |-> <<"V", "S", "C", "4">>, lowered |-> <<"v", "s", "c", "4">>],
              [raw |-> <<"D", "g", "x">>, lowered |-> <<"d", "g", "x">>],
              [raw |-> <<"V", "S", "C", "5">>, lowered |-> <<"v", "s", "c", "5">>]}

Environs == {<< >>} \cup {[HPC_SYSTEM |-> h.raw] : h \in HpcValues}

HostNames == {HgxHostName, <<"n", "o", "d", "e", "0", "7">>}

CwdHome == <<<<>>, <<"h", "o", "m", "e">>, <<"u">>>>

SrcDir == <<<<>>, <<"o", "p", "t">>, <<"d", "e", "e", "p", "e", "r", "w", "i", "n">>, <<"s", "r", "c">>>>

AllEnvs == [hostname : HostNames, slurm_conf : SlurmConfs, environ : Environs,
            cwd : {CwdHome}, src_dir : {SrcDir}, existing : {{TokScript}}]

\* A workstation: no scheduler, no override.
Workstation == [hostname |-> <<"n", "o", "d", "e", "0", "7">>, slurm_conf |-> SlurmAbsent, environ |-> << >>,
                cwd |-> CwdHome, src_dir |-> SrcDir, existing |-> {TokScript}]

NoCall == [op |-> "none"]

(***************************************************************************)
(* Spec: an experiment on a workstation.  The working directory holds a    *)
(* regular file, notes; the caller sets up the experiment directory and    *)
(* job directories and dispatches jobs, in any order and any number of     *)
(* times.                                                                  *)
(***************************************************************************)
Init ==
    /\ fs = [dirs |-> {}, files |-> (NotesPath :> <<<<"t", "o", "d", "o">>>>)]
    /\ env = Workstation
    /\ last = NoCall
    /\ dq = Unused /\ fr = Unused /\ nq = Unused /\ calls = Unused

Next ==
    \/ \E directory \in {ExpPath, NotesPath}, force \in BOOLEAN :
         SetupExperimentDir(directory, force)
    \/ \E name \in JobNames : SetupJobDir(ExpPath, name)
    \/ \E job_dir \in JobDirs, config \in Configs : DispatchJob(Command, job_dir, config)

Spec == Init /\ [][Next]_vars

(***************************************************************************)
(* SpecResolve: dispatch_job in every environment, from a job directory    *)
(* that is set up.                                                         *)
(***************************************************************************)
ResolveJobDir == PathJoin(ExpPath, idx_to_job_name(0))

ResolveConfigs == {c \in Configs : c.time = TimeTwoHours /\ c.queue = QueueDefault}

ResolveInit ==
    /\ fs = [dirs |-> {ExpPath, ResolveJobDir}, files |-> << >>]
    /\ env \in AllEnvs
    /\ last = NoCall
    /\ dq = Unused /\ fr = Unused /\ nq = Unused /\ calls = Unused

ResolveNext == \E config \in ResolveConfigs : DispatchJob(Command, ResolveJobDir, config)

SpecResolve == ResolveInit /\ [][ResolveNext]_vars

(***************************************************************************)
(* C1, C2, C3: the backend dispatch_job resolves to                        *)
(***************************************************************************)
\* The names that have a handler.
KnownBackends == {SysLocal, SysLocalBackground, SysVsc3, SysVsc4, SysDgx}

OverrideSet == "HPC_SYSTEM" \in DOMAIN env.environ

\* C1: when the requested backend is "auto" and HPC_SYSTEM is set,
\* dispatch_job resolves to the lower-cased value of the variable, whatever
\* the host name is and whatever the scheduler configuration file holds; a
\* handler is looked up under that name and no other.
C1_OverrideWins ==
    (last.op = "dispatch_job" /\ last.config.system = SysAuto /\ OverrideSet) =>
        \E h \in HpcValues :
            /\ h.raw = env.environ["HPC_SYSTEM"]
            /\ last.dispatch_to = h.lowered
            /\ (last.raised = "KeyError") <=> (h.lowered \notin KnownBackends)

\* HPC_SYSTEM=VSC4 on the GPU server with the DGX scheduler file: the vsc4
\* script was written.
C1_Witness ==
    /\ last.op = "dispatch_job" /\ last.config.system = SysAuto
    /\ env.hostname = HgxHostName /\ env.slurm_conf = SlurmDgx
    /\ OverrideSet /\ env.environ["HPC_SYSTEM"] = <<"V", "S", "C", "4">>
    /\ last.dispatch_to = SysVsc4 /\ last.raised = "none"
    /\ fs.files[PathJoin(last.job_dir, JobScriptName)].template = "vsc4"

\* C2: when the requested backend is "auto" and HPC_SYSTEM is not set,
\* dispatch_job resolves to local_background on the GPU server (whatever
\* the scheduler file holds), otherwise to dgx when the scheduler file exists
\* and holds the cluster's domain, otherwise to local (also when the file
\* exists without the domain).
C2_AutoProbes ==
    (last.op = "dispatch_job" /\ last.config.system = SysAuto /\ ~OverrideSet) =>
        last.dispatch_to =
            IF env.hostname = HgxHostName THEN SysLocalBackground
            ELSE IF env.slurm_conf = SlurmDgx THEN SysDgx
            ELSE SysLocal

\* A scheduler file of another cluster, not on the GPU server: the command
\* ran locally.
C2_Witness ==
    /\ last.op = "dispatch_job" /\ last.config.system = SysAuto /\ ~OverrideSet
    /\ env.hostname # HgxHostName /\ env.slurm_conf = SlurmOther
    /\ last.dispatch_to = SysLocal
    /\ last.effects = <<Ran(last.fname, last.job_dir)>>

\* C3: when the requested backend is a concrete name (not "auto"),
\* dispatch_job uses exactly that name: the host name, the scheduler file
\* and HPC_SYSTEM have no influence.
C3_ConcreteUnchanged ==
    (last.op = "dispatch_job" /\ last.config.system # SysAuto) =>
        /\ last.dispatch_to = last.config.system
        /\ (last.raised = "KeyError") <=> (last.config.system \notin KnownBackends)

\* "local" requested on the GPU server, with the DGX scheduler file and
\* HPC_SYSTEM=VSC4: the command ran locally, and was waited for.
C3_Witness ==
    /\ last.op = "dispatch_job" /\ last.config.system = SysLocal
    /\ env.hostname = HgxHostName /\ env.slurm_conf = SlurmDgx
    /\ OverrideSet /\ env.environ["HPC_SYSTEM"] = <<"V", "S", "C", "4">>
    /\ last.dispatch_to = SysLocal
    /\ last.effects = <<Ran(last.fname, last.job_dir)>>

(***************************************************************************)
(* C4, C5: the directories                                                 *)
(***************************************************************************)
\* What lies below the path p.
Below(f, p) == {q \in f.dirs \cup DOMAIN f.files : IsPrefix(NormPath(p), q) /\ q # NormPath(p)}

\* C4: for every path p that exists, setup_experiment_dir(p, force=False)
\* fails and leaves the file system as it was, and
\* setup_experiment_dir(p, force=True) ends with an empty directory at p,
\* whatever p held before.
C4_ExistingPathAsStated ==
    [][(last'.op = "setup_experiment_dir" /\ Exists(fs, last'.directory)) =>
          IF last'.force
          THEN /\ last'.raised = "none"
               /\ IsDir(fs', last'.directory)
               /\ Below(fs', last'.directory) = {}
          ELSE /\ last'.raised # "none"
               /\ fs' = fs]_vars

\* C5: setup_job_dir is idempotent: every call returns the path
\* parent/name and does not raise, so two calls with the same arguments
\* return the same path; a call that finds the directory there logs a
\* warning, creates nothing and leaves what the directory holds unchanged.
C5_SetupJobDirIdempotent ==
    [][last'.op = "setup_job_dir" =>
          LET job_dir == PathJoin(last'.parent_dir, last'.name)
          IN  /\ last'.raised = "none"
              /\ last'.value = job_dir
              /\ IsDir(fs', job_dir)
              /\ IF Exists(fs, job_dir)
                 THEN fs' = fs /\ last'.log = <<AlreadyExistsWarning>>
                 ELSE last'.log = <<>>]_vars

\* setup_job_dir warned about a job directory that holds a job script.
C5_Witness ==
    /\ last.op = "setup_job_dir" /\ last.raised = "none"
    /\ last.log = <<AlreadyExistsWarning>>
    /\ last.value = PathJoin(last.parent_dir, last.name)
    /\ PathJoin(last.value, JobScriptName) \in DOMAIN fs.files

(***************************************************************************)
(* C9, C10: the side effects of dispatch_job                               *)
(***************************************************************************)
\* The files that f and g do not hold alike.
ChangedFiles(f, g) ==
    {q \in DOMAIN f.files \cup DOMAIN g.files :
        \/ q \notin DOMAIN f.files
        \/ q \notin DOMAIN g.files
        \/ f.files[q] # g.files[q]}

Opens(effects) == {i \in 1..Len(effects) : effects[i].effect = "open for writing"}

OpenedPaths(effects) == {effects[i].path : i \in Opens(effects)}

Launches(effects) == {i \in 1..Len(effects) : effects[i].effect = "process"}

ClusterBackends == {SysVsc3, SysVsc4, SysDgx}

\* C9 as stated: every call of dispatch_job writes at most one file, which
\* is job.sh, and launches at most one process; for local and
\* local_background no file is written.
C9_OneWriteAsStated ==
    [][last'.op = "dispatch_job" =>
          LET script == PathJoin(last'.job_dir, JobScriptName)
          IN  /\ Cardinality(Opens(last'.effects)) <= 1
              /\ OpenedPaths(last'.effects) \subseteq {script}
              /\ ChangedFiles(fs, fs') \subseteq {script}
              /\ fs'.dirs = fs.dirs
              /\ Cardinality(Launches(last'.effects)) <= 1
              /\ last'.dispatch_to \in {SysLocal, SysLocalBackground} =>
                     Opens(last'.effects) = {} /\ fs' = fs]_vars

\* C9: every call of dispatch_job opens at most one file for writing and
\* launches at most one process.  The file is job.sh of the job directory
\* for vsc3, vsc4 and dgx, and the output file GPU.out of the job directory,
\* created or emptied, for local_background; local opens none.  No other
\* file and no directory changes, so local and local_background leave
\* job.sh alone.
C9_OneFilePerBackend ==
    [][last'.op = "dispatch_job" =>
          LET script == PathJoin(last'.job_dir, JobScriptName)
              out    == PathJoin(last'.job_dir, GpuOutName)
              opened == OpenedPaths(last'.effects)
          IN  /\ Cardinality(Opens(last'.effects)) <= 1
              /\ Cardinality(Launches(last'.effects)) <= 1
              /\ ChangedFiles(fs, fs') \subseteq opened
              /\ fs'.dirs = fs.dirs
              /\ last'.dispatch_to \in ClusterBackends => opened \subseteq {script}
              /\ last'.dispatch_to = SysLocalBackground => opened \subseteq {out}
              /\ last'.dispatch_to \notin ClusterBackends \cup {SysLocalBackground} =>
                     opened = {}]_vars

\* local_background opened GPU.out of a job directory without a job script
\* and started the command detached.
C9_Witness ==
    /\ last.op = "dispatch_job" /\ last.dispatch_to = SysLocalBackground
    /\ last.raised = "none"
    /\ last.effects = <<OpenedForWriting(PathJoin(last.job_dir, GpuOutName)),
                        Spawned(last.fname, last.job_dir,
                                PathJoin(last.job_dir, GpuOutName))>>
    /\ PathJoin(last.job_dir, GpuOutName) \in DOMAIN fs.files
    /\ PathJoin(last.job_dir, JobScriptName) \notin DOMAIN fs.files

MalformedTimes == {TimeFortnights, TimeAbc}

\* C10: a dispatch_job call whose backend name has no handler fails with
\* KeyError, and one to vsc3, vsc4 or dgx whose time budget is malformed
\* fails with the ValueError of the duration parser; either fails before a
\* file is opened and before a process is launched, and the file system is
\* as it was before the call.
C10_FailsBeforeEffects ==
    [][last'.op = "dispatch_job" =>
          /\ last'.dispatch_to \notin KnownBackends =>
                 last'.raised = "KeyError" /\ last'.effects = <<>> /\ fs' = fs
          /\ (last'.dispatch_to \in ClusterBackends
              /\ last'.config.time \in MalformedTimes) =>
                 /\ last'.raised \in {InvalidTimeString, InvalidUnitOfTime}
                 /\ last'.effects = <<>>
                 /\ fs' = fs]_vars

\* vsc3 with the time budget "5 fortnights", from a job directory that is
\* set up: the call failed and there is no job script.
C10_Witness ==
    /\ last.op = "dispatch_job" /\ last.dispatch_to = SysVsc3
    /\ last.config.time = TimeFortnights
    /\ last.raised = InvalidUnitOfTime
    /\ IsDir(fs, last.job_dir)
    /\ PathJoin(last.job_dir, JobScriptName) \notin DOMAIN fs.files

(***************************************************************************)
(* C11: the life of a job directory                                        *)
(***************************************************************************)
\* The regular files below the directory d.
FilesBelow(f, d) == {q \in DOMAIN f.files : IsPrefix(d, q) /\ q # d}

\* The job directory d and the files it holds are still there in g.
Kept(f, g, d) == IsDir(g, d) /\ FilesBelow(f, d) \subseteq FilesBelow(g, d)

\* C11 as stated: whatever the call, a job directory that setup_job_dir
\* created is still there after it, with the files it held.
C11_NeverDestroyedAsStated ==
    [][\A d \in JobDirs : IsDir(fs, d) => Kept(fs, fs', d)]_vars

\* The call is setup_experiment_dir with force=True on a directory that
\* holds d.
ForcedOver(call, f, d) ==
    /\ call.op = "setup_experiment_dir"
    /\ call.force
    /\ IsDir(f, call.directory)
    /\ IsPrefix(NormPath(call.directory), d)

\* C11: a job directory that setup_job_dir created is still there, with the
\* files it held, after every setup_job_dir, every dispatch_job and every
\* setup_experiment_dir without force, and the content of its files changes
\* only for the file a dispatch_job from this directory opens.  Only
\* setup_experiment_dir with force=True on a directory that holds it removes
\* it, with everything below.
C11_DestroyedOnlyByForce ==
    [][\A d \in JobDirs : IsDir(fs, d) =>
          IF ForcedOver(last', fs, d)
          THEN ~Exists(fs', d) /\ FilesBelow(fs', d) = {}
          ELSE /\ Kept(fs, fs', d)
               /\ \A q \in FilesBelow(fs, d) :
                    fs'.files[q] # fs.files[q] =>
                        /\ last'.op = "dispatch_job"
                        /\ NormPath(last'.job_dir) = d
                        /\ q \in OpenedPaths(last'.effects)]_vars

\* setup_experiment_dir without force was refused on an experiment
\* directory whose job directory holds a job script.
C11_Witness ==
    /\ last.op = "setup_experiment_dir" /\ ~last.force
    /\ last.raised = DirectoryAlreadyExists
    /\ \E d \in JobDirs :
         /\ IsPrefix(last.directory, d) /\ IsDir(fs, d)
         /\ PathJoin(d, JobScriptName) \in DOMAIN fs.files

(***************************************************************************)
(* C12: the life of a job script                                           *)
(***************************************************************************)
\* C12 as stated: a dispatch_job call leaves every job script that is
\* already written as it is, also when it dispatches from the directory of
\* that script: job.sh is written once and its content never changes.
C12_WrittenOnceAsStated ==
    [][last'.op = "dispatch_job" =>
          \A d \in JobDirs :
              LET script == PathJoin(d, JobScriptName)
              IN  script \in DOMAIN fs.files =>
                      /\ script \in DOMAIN fs'.files
                      /\ fs'.files[script] = fs.files[script]]_vars

(***************************************************************************)
(* SpecConcurrent: several callers in dispatch_job at once, each from its  *)
(* own job directory, on a node of the DGX cluster.  calls[c] is the       *)
(* position of caller c in dispatch_job and its cluster handler, with its  *)
(* local variables, the script sbatch was started on and the paths the     *)
(* call has read or written.  A step is one access to the file system or   *)
(* one local computation.                                                  *)
(***************************************************************************)
MaxCallers == 2

Callers == 0..(MaxCallers - 1)

\* Caller c dispatches job c of the experiment, its command ending with the
\* name of the job.
CallerJobDir(c) == PathJoin(ExpPath, idx_to_job_name(c))

CallerCommand(c) == Append(Command, idx_to_job_name(c))

SlurmConfPath == <<<<>>, <<"e", "t", "c">>, <<"s", "l", "u", "r", "m">>, <<"s", "l", "u", "r", "m", ".", "c", "o", "n", "f">>>>

\* A script kept under one name in the working directory of the process,
\* whatever the job directory.
JobScriptPathShared(run_dir) == <<JobScriptName>>

\* os.path.join(run_dir, 'job.sh'), and job.sh as sbatch finds it with
\* cwd=run_dir
JobScriptPath(run_dir) == PathJoin(run_dir, JobScriptName)

\* The lines of a cluster handler before it opens job.sh: the time budget
\* is parsed, the queue chosen and the script rendered.
RenderJobfile(e, dispatch_to, command, run_dir, config) ==
    LET time_in_minutes == duration_string_to_minutes(config.time)
        content ==
            IF dispatch_to = SysVsc3
            THEN get_jobfile_content_vsc3(
                     Join(command, Space), config.experiment_name,
                     IF config.queue = QueueDefault THEN QueueVsc3 ELSE config.queue,
                     time_in_minutes.value, config.conda_env)
            ELSE IF dispatch_to = SysVsc4
            THEN get_jobfile_content_vsc4(
                     Join(command, Space), config.experiment_name,
                     IF config.queue = QueueDefault THEN QueueVsc4 ELSE config.queue,
                     time_in_minutes.value)
            ELSE get_jobfile_content_dgx(
                     Join(append_nfs_to_fullpaths(command, e.existing), Space),
                     config.experiment_name, _map_dgx_path(e, run_dir),
                     time_in_minutes.value, config.conda_env,
                     _map_dgx_path(e, e.src_dir))
    IN  IF time_in_minutes.raised # "none" THEN [raised |-> time_in_minutes.raised]
        ELSE [raised |-> "none", content |-> content]

DgxNode == [hostname |-> <<"n", "o", "d", "e", "0", "7">>, slurm_conf |-> SlurmDgx, environ |-> << >>,
            cwd |-> CwdHome, src_dir |-> SrcDir, existing |-> {TokScript}]

ConcurrentConfigs ==
    {c \in Configs : /\ c.system \in {SysAuto, SysVsc3, SysVsc4}
                     /\ c.time \in {TimeTwoHours, TimeAbc}
                     /\ c.queue = QueueDefault}

ConcurrentInit ==
    /\ fs = [dirs |-> {ExpPath} \cup {CallerJobDir(c) : c \in Callers}, files |-> << >>]
    /\ env = DgxNode
    /\ calls \in [Callers -> {[pc |-> "resolve", config |-> cf, touched |-> {}] :
                                cf \in ConcurrentConfigs}]
    /\ last = Unused /\ dq = Unused /\ fr = Unused /\ nq = Unused

\* Lines 213-226: the backend is resolved and its handler looked up.
ResolveStep(c) ==
    /\ calls[c].pc = "resolve"
    /\ \E dispatch_to \in {ResolveDispatchTo(env, calls[c].config.system)} :
         calls' = [calls EXCEPT ![c] =
                     [@ EXCEPT !.pc = IF HandlerPrefix \o dispatch_to \in HandlerGlobals
                                      THEN "render" ELSE "failed",
                               !.touched = IF calls[c].config.system = SysAuto
                                           THEN @ \cup {SlurmConfPath} ELSE @]
                     @@ [dispatch_to |-> dispatch_to]]
    /\ UNCHANGED <<fs, env, last, dq, fr, nq>>

\* Lines 95-98, 106-109, 132-138
RenderStep(c) ==
    /\ calls[c].pc = "render"
    /\ \E r \in {RenderJobfile(env, calls[c].dispatch_to, CallerCommand(c),
                               CallerJobDir(c), calls[c].config)} :
         calls' = [calls EXCEPT ![c] =
                     IF r.raised # "none"
                     THEN [@ EXCEPT !.pc = "failed"]
                     ELSE [@ EXCEPT !.pc = "open"] @@ [content |-> r.content]]
    /\ UNCHANGED <<fs, env, last, dq, fr, nq>>

\* Lines 100, 111, 140: open(..., 'w') creates or empties job.sh.
OpenStep(c) ==
    /\ calls[c].pc = "open"
    /\ LET script == JobScriptPath(CallerJobDir(c))
       IN  IF OpenWriteError(fs, script) # "none"
           THEN /\ calls' = [calls EXCEPT ![c].pc = "failed"]
                /\ fs' = fs
           ELSE /\ calls' = [calls EXCEPT ![c].pc = "write",
                                          ![c].touched = @ \cup {NormPath(script)}]
                /\ fs' = WriteFile(fs, script, EmptyContent)
    /\ UNCHANGED <<env, last, dq, fr, nq>>

\* Lines 101, 112, 141: f.write(jobfile_content), and the file is closed.
WriteStep(c) ==
    /\ calls[c].pc = "write"
    /\ calls' = [calls EXCEPT ![c].pc = "submit"]
    /\ fs' = WriteFile(fs, JobScriptPath(CallerJobDir(c)), calls[c].content)
    /\ UNCHANGED <<env, last, dq, fr, nq>>

\* Lines 102, 113, 142: sbatch job.sh is run in the job directory and reads
\* the script that is there.
SubmitStep(c) ==
    /\ calls[c].pc = "submit"
    /\ LET script == NormPath(JobScriptPath(CallerJobDir(c)))
       IN  calls' = [calls EXCEPT ![c] =
                       [@ EXCEPT !.pc = "done", !.touched = @ \cup {script}]
                       @@ [submitted |-> fs.files[script]]]
    /\ UNCHANGED <<fs, env, last, dq, fr, nq>>

ConcurrentNext ==
    \E c \in Callers :
        \/ ResolveStep(c)
        \/ RenderStep(c)
        \/ OpenStep(c)
        \/ WriteStep(c)
        \/ SubmitStep(c)

SpecConcurrent == ConcurrentInit /\ [][ConcurrentNext]_vars

(***************************************************************************)
(* C13                                                                     *)
(***************************************************************************)
\* The script dispatch_job writes when caller c's call runs alone.
ScriptAlone(c) ==
    dispatch_job([dirs |-> {ExpPath, CallerJobDir(c)}, files |-> << >>], env,
                 CallerCommand(c), CallerJobDir(c), calls[c].config)
        .fs.files[PathJoin(CallerJobDir(c), JobScriptName)]

\* C13: with callers in dispatch_job at once, each from its own job
\* directory, in every interleaving of their steps: the job.sh a call
\* submits, and the one its directory holds from then on, is the script
\* rendered for the call's own command and configuration, and a call reads
\* and writes no path in the job directory of another call.
C13_CallsIndependent ==
    \A c \in Callers :
        /\ calls[c].pc = "done" =>
               /\ calls[c].submitted = ScriptAlone(c)
               /\ calls[c].submitted.command =
                      Join(IF calls[c].dispatch_to = SysDgx
                           THEN <<Command[1], NfsPrefix \o TokScript,
                                  Command[3], idx_to_job_name(c)>>
                           ELSE CallerCommand(c), Space)
               /\ PathJoin(CallerJobDir(c), JobScriptName) \in DOMAIN fs.files
               /\ fs.files[PathJoin(CallerJobDir(c), JobScriptName)] = calls[c].submitted
        /\ \A d \in Callers \ {c} :
               \A p \in calls[c].touched : ~IsPrefix(CallerJobDir(d), p)

\* Two calls are through, one to vsc3 and one resolved to dgx, and each job
\* directory holds its own script.
C13_Witness ==
    /\ \A c \in Callers : calls[c].pc = "done"
    /\ \E c, d \in Callers :
         /\ calls[c].dispatch_to = SysVsc3 /\ calls[d].dispatch_to = SysDgx
         /\ fs.files[PathJoin(CallerJobDir(c), JobScriptName)].template = "vsc3"
         /\ fs.files[PathJoin(CallerJobDir(d), JobScriptName)].template = "dgx"

(***************************************************************************)
(* C14: the queue of a job script                                          *)
(***************************************************************************)
\* C14 as stated: the script a dispatch to vsc3, vsc4 or dgx has written
\* carries, as its partition and as its QoS, the configured queue, with
\* "default" replaced by a default queue.
C14_QueueAsStated ==
    (/\ last.op = "dispatch_job"
     /\ last.raised = "none"
     /\ last.dispatch_to \in ClusterBackends) =>
        LET script == fs.files[PathJoin(last.job_dir, JobScriptName)]
        IN  /\ {"partition", "qos"} \subseteq DOMAIN script
            /\ script.partition = script.qos
            /\ IF last.config.queue = QueueDefault
               THEN script.partition # QueueDefault
               ELSE script.partition = last.config.queue

====
